---- MODULE Spec2Model ----
(***************************************************************************)
(* Geocoding service of the Shop Window frontend                           *)
(* (src/src/services/geocoding.ts): the module-level address cache, its    *)
(* localStorage persistence, geocodeAddress, geocodeProperty, the batched  *)
(* geocodeProperties pipeline and the cache maintenance hooks.             *)
(*                                                                         *)
(* Execution model: JavaScript's event loop.  A step of the model is       *)
(* either a synchronous call made by user code, the microtask checkpoint   *)
(* that follows it (Drain), or one macrotask of the environment (a fetch   *)
(* settling, a timer firing) together with the microtasks it queues.       *)
(* Macrotasks never run while microtasks are pending.                      *)
(*                                                                         *)
(* JavaScript values are written as strings ("null", "undefined", "NaN",   *)
(* "39.9"), so that values of different JavaScript types stay comparable.  *)
(***************************************************************************)
EXTENDS Integers, Sequences, FiniteSets, TLC

\* ------------------------------------------------------------------ bounds
\* Calls user code makes in one behaviour (runs, direct calls, maintenance).
MaxOps == 2
\* Longest uniform list of the batch specification.
MaxBatchProps == 25
\* Invocations made one after the other in the batch specification.
MaxBatchOps == 2
\* Longest list of the second of two overlapping invocations.
MaxOverlapProps == 2

\* -------------------------------------------------------- program constants
BATCH_SIZE == 10

\* --------------------------------------------------------------- JS values
Null == "null"
Undefined == "undefined"

\* Address keys (the strings formatAddressForGeocoding produces).
Addr == {"a1", "a2"}

GeocodeResult(lat, lng, fa, ok) ==
  [latitude |-> lat, longitude |-> lng, formatted_address |-> fa, success |-> ok]

NoResult == GeocodeResult(Undefined, Undefined, Undefined, FALSE)

\* The empty object {} and an object with the given entries.
EmptyEntries == [a \in {} |-> NoResult]

ObjectCache(entries) == [kind |-> "object", entries |-> entries]

NullCache == [kind |-> "null", entries |-> EmptyEntries]

\* geocodeCache[address] as a truth value: an entry object is truthy, a missing
\* key is undefined.  Only meaningful on an object cache.
HasEntry(cache, address) == address \in DOMAIN cache.entries

\* ------------------------------------------------------- durable storage
\* The localStorage item 'geocodeCache': missing, text that is no JSON, the
\* text "null", or the JSON text of a cache object.
StorageMissing == [kind |-> "missing", entries |-> EmptyEntries]

StorageCorrupt == [kind |-> "corrupt", entries |-> EmptyEntries]

StorageNullText == [kind |-> "null", entries |-> EmptyEntries]

StorageCache(entries) == [kind |-> "cache", entries |-> entries]

\* A serialization that writes every value as null.
JsonValueAsNull(v) == Null

\* JSON.stringify of one value: NaN is written as null; a property whose value
\* is undefined is left out, and reads back as undefined.
JsonValue(v) == IF v = "NaN" THEN Null ELSE v

JsonResult(r) ==
  [latitude |-> JsonValue(r.latitude), longitude |-> JsonValue(r.longitude),
   formatted_address |-> JsonValue(r.formatted_address), success |-> r.success]

\* JSON.stringify(geocodeCache)
JsonStringify(cache) ==
  IF cache.kind = "null" THEN StorageNullText
  ELSE StorageCache([a \in DOMAIN cache.entries |-> JsonResult(cache.entries[a])])

\* loadCacheFromStorage: getItem, then JSON.parse when the item is truthy; a
\* parse error is caught and leaves the cache as it was.
LoadCacheFromStorage(store, cache) ==
  CASE store.kind = "missing" -> cache
    [] store.kind = "corrupt" -> cache
    [] store.kind = "null" -> NullCache
    [] store.kind = "cache" -> ObjectCache(store.entries)

\* saveCacheToStorage without its setItem: the stored item is never rewritten.
SaveCacheToStorageNever(cache, store, writeOk) == store

\* saveCacheToStorage: setItem may throw (quota, storage disabled); the error
\* is caught and the item keeps its old value.
SaveCacheToStorage(cache, store, writeOk) ==
  IF writeOk THEN JsonStringify(cache) ELSE store

\* ------------------------------------------------------ geocoding provider
\* What one external call can come back with.
Response(fetch, body, status, results, lat, lng, fa) ==
  [fetch |-> fetch, body |-> body, status |-> status, results |-> results,
   lat |-> lat, lng |-> lng, formatted_address |-> fa]

RespLocated == Response("resolved", "json", "OK", "located", "40.0", "-75.1", "F1")

RespNoLatLng ==
  Response("resolved", "json", "OK", "located", Undefined, Undefined, "F1")

RespEmptyResults ==
  Response("resolved", "json", "OK", "empty", Undefined, Undefined, Undefined)

RespNoResultsField ==
  Response("resolved", "json", "OK", "missing", Undefined, Undefined, Undefined)

RespNoGeometry ==
  Response("resolved", "json", "OK", "nogeometry", Undefined, Undefined, Undefined)

RespZeroResults ==
  Response("resolved", "json", "ZERO_RESULTS", "empty", Undefined, Undefined, Undefined)

RespOverLimit ==
  Response("resolved", "json", "OVER_QUERY_LIMIT", "missing", Undefined, Undefined, Undefined)

RespNotJson ==
  Response("resolved", "notjson", Undefined, "missing", Undefined, Undefined, Undefined)

RespNetworkError ==
  Response("rejected", "notjson", Undefined, "missing", Undefined, Undefined, Undefined)

\* Responses whose payload is a well-formed provider answer.
WellFormedResponses ==
  {RespLocated, RespEmptyResults, RespZeroResults, RespOverLimit}

\* Responses that arrive but do not have the provider's documented shape.
MalformedResponses == {RespNoLatLng, RespNoResultsField, RespNoGeometry, RespNotJson}

Responses == WellFormedResponses \cup MalformedResponses \cup {RespNetworkError}

\* The result object of the failure paths of geocodeAddress.
ErrorResult(address) == GeocodeResult("0", "0", address, FALSE)

\* Body of the try block of geocodeAddress once the call has come back: the
\* result it returns.  A rejected fetch, a rejected response.json() and a
\* TypeError on a missing field all end in the catch block.
GeocodeAddressResult(address, resp) ==
  IF resp.fetch = "rejected" \/ resp.body = "notjson" THEN ErrorResult(address)
  ELSE IF resp.status = "OK"
    THEN CASE resp.results = "missing" -> ErrorResult(address)
           [] resp.results = "empty" -> ErrorResult(address)
           [] resp.results = "nogeometry" -> ErrorResult(address)
           [] resp.results = "located" ->
                GeocodeResult(resp.lat, resp.lng, resp.formatted_address, TRUE)
    ELSE ErrorResult(address)

\* ------------------------------------------------------------- properties
ShoppingCenter(id, name, address, lat, lng) ==
  [id |-> id, shopping_center_name |-> name, address |-> address,
   latitude |-> lat, longitude |-> lng]

PropBackend == ShoppingCenter(1, "Center1", "a1", "39.9", "-75.5")

PropNoCoords1 == ShoppingCenter(2, "Center2", "a1", Null, Null)

PropNoCoords2 == ShoppingCenter(3, "Center3", "a2", Null, Null)

PropZeroLat == ShoppingCenter(4, "Center4", "a2", "0", "-75.5")

PropPad == ShoppingCenter(0, "Center0", "a2", "39.1", "-75.2")

\* A record whose latitude is not a number the map can use.
PropNaN == ShoppingCenter(5, "Center5", "a1", "NaN", "-75.5")

\* formatAddressForGeocoding: the address key of a property, a function of
\* its address fields alone.
FormatAddressForGeocoding(property) == property.address

\* The condition of the first branch of geocodeProperty.
HasBackendCoordinates(property) ==
  /\ property.latitude # Null
  /\ property.longitude # Null
  /\ property.latitude # "0"
  /\ property.longitude # "0"

GeocodedProperty(property, lat, lng, source) ==
  [id |-> property.id, shopping_center_name |-> property.shopping_center_name,
   address |-> property.address, latitude |-> lat, longitude |-> lng,
   geocoded |-> TRUE, geocode_source |-> source]

NoGeocoded == GeocodedProperty(PropPad, Undefined, Undefined, Undefined)

\* What a geocodeProperty promise carries: nothing yet, null, or a property.
OutPending == [kind |-> "pending", value |-> NoGeocoded]

OutNull == [kind |-> "null", value |-> NoGeocoded]

OutProperty(g) == [kind |-> "property", value |-> g]

\* ------------------------------------------------------------------ state
VARIABLES
  apiKey,        \* GOOGLE_MAPS_API_KEY is a non-empty string
  geocodeCache,  \* the module-level cache
  localStorage,  \* the localStorage item 'geocodeCache'
  runs,          \* the invocations of geocodeProperties
  direct,        \* an invocation of geocodeAddress made by user code
  history,       \* per address: how its last external resolution ended
  ops            \* calls user code may still make

vars == <<apiKey, geocodeCache, localStorage, runs, direct, history, ops>>

\* Invocations of geocodeProperties that can be pending at once.
RunId == {1, 2}

\* One invocation of geocodeAddress.  st: "fetching" (the external call is in
\* flight), "returned" (the promise is resolved with res), "threw" (the
\* promise is rejected).  The other fields record what the invocation did.
AddressCall(st, address, cachedAtStart, called, res) ==
  [st |-> st, address |-> address, cacheRead |-> TRUE,
   cachedAtStart |-> cachedAtStart, called |-> called, respClass |-> "none",
   res |-> res, write |-> "none", knownAtStart |-> "none", knownAtEnd |-> "none"]

\* geocodeAddress without its cache lookup: every call goes to the provider.
GeocodeAddressStartNoLookup(address, cache, key) ==
  IF ~key THEN AddressCall("threw", address, FALSE, FALSE, NoResult)
  ELSE AddressCall("fetching", address, FALSE, TRUE, NoResult)

\* geocodeAddress checking the API key before it looks into the cache.
GeocodeAddressStartKeyFirst(address, cache, key) ==
  IF ~key THEN AddressCall("threw", address, FALSE, FALSE, NoResult)
  ELSE IF cache.kind = "null" THEN AddressCall("threw", address, FALSE, FALSE, NoResult)
  ELSE IF HasEntry(cache, address)
    THEN AddressCall("returned", address, TRUE, FALSE, cache.entries[address])
  ELSE AddressCall("fetching", address, FALSE, TRUE, NoResult)

\* geocodeAddress up to its first await: the cache lookup (a TypeError when
\* the cache is null), the API key check, then the fetch.
GeocodeAddressStart(address, cache, key) ==
  IF cache.kind = "null" THEN AddressCall("threw", address, FALSE, FALSE, NoResult)
  ELSE IF HasEntry(cache, address)
    THEN AddressCall("returned", address, TRUE, FALSE, cache.entries[address])
  ELSE IF ~key THEN AddressCall("threw", address, FALSE, FALSE, NoResult)
  ELSE AddressCall("fetching", address, FALSE, TRUE, NoResult)

\* The class of a response, as the provider contract names it.
ResponseClass(resp) ==
  IF resp.fetch = "rejected" THEN "transport"
  ELSE IF resp \in MalformedResponses THEN "malformed"
  ELSE IF resp.status = "OK" /\ resp.results = "located" THEN "positive"
  ELSE "negative"

\* geocodeAddress caching whatever result it built, failures too.
GeocodeAddressSettleCachingAll(address, resp, cache, store, writeOk) ==
  LET result == GeocodeAddressResult(address, resp)
      inserted ==
        ObjectCache([a \in DOMAIN cache.entries \cup {address} |->
                       IF a = address THEN result ELSE cache.entries[a]])
  IN [res |-> result, cache |-> inserted,
      store |-> SaveCacheToStorage(inserted, store, writeOk),
      write |-> IF writeOk THEN "ok" ELSE "failed"]

\* geocodeAddress writing its entry into a cache of its own: the entries that
\* other calls inserted are lost.
GeocodeAddressSettleLosingOthers(address, resp, cache, store, writeOk) ==
  LET result == GeocodeAddressResult(address, resp) IN
  IF ~result.success
    THEN [res |-> result, cache |-> cache, store |-> store, write |-> "none"]
  ELSE IF cache.kind = "null"
    THEN [res |-> ErrorResult(address), cache |-> cache, store |-> store,
          write |-> "none"]
  ELSE LET inserted == ObjectCache([a \in {address} |-> result])
       IN [res |-> result, cache |-> inserted,
           store |-> SaveCacheToStorage(inserted, store, writeOk),
           write |-> IF writeOk THEN "ok" ELSE "failed"]

\* geocodeAddress with a saveCacheToStorage that lets the error of setItem
\* out: the catch block of geocodeAddress answers with the failure result.
GeocodeAddressSettleSaveThrows(address, resp, cache, store, writeOk) ==
  LET result == GeocodeAddressResult(address, resp) IN
  IF ~result.success
    THEN [res |-> result, cache |-> cache, store |-> store, write |-> "none"]
  ELSE IF cache.kind = "null"
    THEN [res |-> ErrorResult(address), cache |-> cache, store |-> store,
          write |-> "none"]
  ELSE LET inserted ==
             ObjectCache([a \in DOMAIN cache.entries \cup {address} |->
                            IF a = address THEN result ELSE cache.entries[a]])
       IN [res |-> IF writeOk THEN result ELSE ErrorResult(address),
           cache |-> inserted,
           store |-> SaveCacheToStorage(inserted, store, writeOk),
           write |-> IF writeOk THEN "ok" ELSE "failed"]

\* geocodeAddress from the point where the external call comes back: the
\* result, the cache and the stored item it leaves, and how setItem went
\* ("none" when saveCacheToStorage was not reached).  The insertion is inside
\* the try block: on a null cache it throws and the catch block answers.
GeocodeAddressSettle(address, resp, cache, store, writeOk) ==
  LET result == GeocodeAddressResult(address, resp) IN
  IF ~result.success
    THEN [res |-> result, cache |-> cache, store |-> store, write |-> "none"]
  ELSE IF cache.kind = "null"
    THEN [res |-> ErrorResult(address), cache |-> cache, store |-> store,
          write |-> "none"]
  ELSE LET inserted ==
             ObjectCache([a \in DOMAIN cache.entries \cup {address} |->
                            IF a = address THEN result ELSE cache.entries[a]])
       IN [res |-> result, cache |-> inserted,
           store |-> SaveCacheToStorage(inserted, store, writeOk),
           write |-> IF writeOk THEN "ok" ELSE "failed"]

\* One invocation of geocodeProperty inside a batch: the geocodeAddress
\* invocation it awaits (when it makes one), the property, and its outcome.
\* st adds "settled" (resolved with out) and "rejected".
PropertySlot(call, property, out) ==
  [st |-> call.st, address |-> call.address, cacheRead |-> call.cacheRead,
   cachedAtStart |-> call.cachedAtStart, called |-> call.called,
   respClass |-> call.respClass, res |-> call.res, write |-> call.write,
   knownAtStart |-> call.knownAtStart, knownAtEnd |-> call.knownAtEnd,
   property |-> property, out |-> out]

\* geocodeProperty looking the address up before it looks at the property's
\* own coordinates.
GeocodePropertyStartLookupFirst(property, cache, key, hist) ==
  LET address == FormatAddressForGeocoding(property) IN
  IF cache.kind = "object" /\ HasEntry(cache, address)
    THEN [PropertySlot(GeocodeAddressStart(address, cache, key), property, OutPending)
            EXCEPT !.knownAtStart = hist[address]]
  ELSE IF HasBackendCoordinates(property)
    THEN [PropertySlot(AddressCall("settled", "none", FALSE, FALSE, NoResult), property,
                       OutProperty(GeocodedProperty(property, property.latitude,
                                                    property.longitude, "backend")))
            EXCEPT !.cacheRead = FALSE]
  ELSE [PropertySlot(GeocodeAddressStart(address, cache, key), property, OutPending)
          EXCEPT !.knownAtStart = hist[address]]

\* geocodeProperty up to its first await.
GeocodePropertyStart(property, cache, key, hist) ==
  IF HasBackendCoordinates(property)
    THEN [PropertySlot(AddressCall("settled", "none", FALSE, FALSE, NoResult), property,
                       OutProperty(GeocodedProperty(property, property.latitude,
                                                    property.longitude, "backend")))
            EXCEPT !.cacheRead = FALSE]
    ELSE LET address == FormatAddressForGeocoding(property) IN
         [PropertySlot(GeocodeAddressStart(address, cache, key), property, OutPending)
            EXCEPT !.knownAtStart = hist[address]]

\* geocodeProperty building a property from any result, failed ones too.
GeocodePropertySettleAnyResult(slot, cache, hist) ==
  CASE slot.st = "threw" -> [slot EXCEPT !.st = "rejected"]
    [] slot.st = "returned" ->
         [slot EXCEPT !.st = "settled", !.knownAtEnd = hist[slot.address],
            !.out = OutProperty(GeocodedProperty(slot.property,
                      slot.res.latitude, slot.res.longitude,
                      IF cache.kind = "object" /\ HasEntry(cache, slot.address)
                        THEN "cache" ELSE "api"))]
    [] OTHER -> slot

\* geocodeProperty leaving the provenance tag out of the properties it builds
\* from a geocodeAddress result.
GeocodePropertySettleUntagged(slot, cache, hist) ==
  CASE slot.st = "threw" -> [slot EXCEPT !.st = "rejected"]
    [] slot.st = "returned" ->
         IF slot.res.success
           THEN IF cache.kind = "null" THEN [slot EXCEPT !.st = "rejected"]
                ELSE [slot EXCEPT !.st = "settled", !.knownAtEnd = hist[slot.address],
                        !.out = OutProperty(GeocodedProperty(slot.property,
                                  slot.res.latitude, slot.res.longitude, Undefined))]
           ELSE [slot EXCEPT !.st = "settled", !.knownAtEnd = hist[slot.address],
                   !.out = OutNull]
    [] OTHER -> slot

\* geocodeProperty calling geocodeAddress again when the result is a failure.
GeocodePropertySettleRetrying(slot, cache, hist) ==
  CASE slot.st = "threw" -> [slot EXCEPT !.st = "rejected"]
    [] slot.st = "returned" ->
         IF slot.res.success
           THEN IF cache.kind = "null" THEN [slot EXCEPT !.st = "rejected"]
                ELSE [slot EXCEPT !.st = "settled", !.knownAtEnd = hist[slot.address],
                        !.out = OutProperty(GeocodedProperty(slot.property,
                                  slot.res.latitude, slot.res.longitude,
                                  IF HasEntry(cache, slot.address) THEN "cache" ELSE "api"))]
           ELSE [slot EXCEPT !.st = "fetching"]
    [] OTHER -> slot

\* geocodeProperty after its await: the provenance tag is read from the cache
\* as it is at that moment.
GeocodePropertySettle(slot, cache, hist) ==
  CASE slot.st = "threw" -> [slot EXCEPT !.st = "rejected"]
    [] slot.st = "returned" ->
         IF slot.res.success
           THEN IF cache.kind = "null" THEN [slot EXCEPT !.st = "rejected"]
                ELSE [slot EXCEPT !.st = "settled", !.knownAtEnd = hist[slot.address],
                        !.out = OutProperty(GeocodedProperty(slot.property,
                                  slot.res.latitude, slot.res.longitude,
                                  IF HasEntry(cache, slot.address) THEN "cache" ELSE "api"))]
           ELSE [slot EXCEPT !.st = "settled", !.knownAtEnd = hist[slot.address],
                   !.out = OutNull]
    [] OTHER -> slot

\* ---------------------------------------------------- geocodeProperties
Min(a, b) == IF a < b THEN a ELSE b

\* One invocation of geocodeProperties.  status: "idle" (not invoked),
\* "awaitBatch" (at await Promise.all), "delay" (at the await of the timer),
\* "completed" (returned geocodedProperties), "rejected" (threw).  i is the
\* loop variable, slots the geocodeProperty invocations of the current batch,
\* batches the number of loop iterations entered, delays the number of timers
\* set on line 204.
Run(status, properties) ==
  [status |-> status, properties |-> properties, i |-> 0, slots |-> << >>,
   geocodedProperties |-> << >>, failedProperties |-> << >>, batches |-> 0,
   delays |-> 0]

IdleRun == Run("idle", << >>)

\* A slice whose end is one too far.
BatchOfOneTooMany(properties, i) ==
  SubSeq(properties, i + 1, Min(i + BATCH_SIZE + 1, Len(properties)))

\* properties.slice(i, i + BATCH_SIZE)
BatchOf(properties, i) ==
  SubSeq(properties, i + 1, Min(i + BATCH_SIZE, Len(properties)))

\* One loop iteration up to await Promise.all: batch.map(geocodeProperty)
\* runs every invocation up to its first await, in order.
StartBatch(run, i, cache, key, hist) ==
  LET batch == BatchOf(run.properties, i) IN
  [run EXCEPT !.status = "awaitBatch", !.i = i, !.batches = @ + 1,
     !.slots = [k \in 1..Len(batch) |-> GeocodePropertyStart(batch[k], cache, key, hist)]]

\* A forEach that puts the results of a batch in front of the earlier ones.
AfterBatchNewestFirst(run) ==
  LET good == SelectSeq(run.slots, LAMBDA s : s.out.kind = "property")
      bad == SelectSeq(run.slots, LAMBDA s : s.out.kind # "property")
  IN [run EXCEPT
        !.geocodedProperties = [k \in 1..Len(good) |-> good[k].out.value] \o @,
        !.failedProperties =
           @ \o [k \in 1..Len(bad) |-> bad[k].property.shopping_center_name],
        !.delays = IF run.i + BATCH_SIZE < Len(run.properties) THEN @ + 1 ELSE @,
        !.status = IF run.i + BATCH_SIZE < Len(run.properties)
                     THEN "delay" ELSE "completed"]

\* The forEach without its else branch: failures are dropped, not recorded.
AfterBatchDroppingFailures(run) ==
  LET good == SelectSeq(run.slots, LAMBDA s : s.out.kind = "property")
  IN [run EXCEPT
        !.geocodedProperties = @ \o [k \in 1..Len(good) |-> good[k].out.value],
        !.delays = IF run.i + BATCH_SIZE < Len(run.properties) THEN @ + 1 ELSE @,
        !.status = IF run.i + BATCH_SIZE < Len(run.properties)
                     THEN "delay" ELSE "completed"]

\* A loop that waits after every batch, the last one too.
AfterBatchDelayingAlways(run) ==
  LET good == SelectSeq(run.slots, LAMBDA s : s.out.kind = "property")
      bad == SelectSeq(run.slots, LAMBDA s : s.out.kind # "property")
  IN [run EXCEPT
        !.geocodedProperties = @ \o [k \in 1..Len(good) |-> good[k].out.value],
        !.failedProperties =
           @ \o [k \in 1..Len(bad) |-> bad[k].property.shopping_center_name],
        !.delays = @ + 1,
        !.status = "delay"]

\* The loop iteration after Promise.all has resolved: the forEach over the
\* results, then the delay when another batch follows, else the return.
AfterBatch(run) ==
  LET good == SelectSeq(run.slots, LAMBDA s : s.out.kind = "property")
      bad == SelectSeq(run.slots, LAMBDA s : s.out.kind # "property")
  IN [run EXCEPT
        !.geocodedProperties = @ \o [k \in 1..Len(good) |-> good[k].out.value],
        !.failedProperties =
           @ \o [k \in 1..Len(bad) |-> bad[k].property.shopping_center_name],
        !.delays = IF run.i + BATCH_SIZE < Len(run.properties) THEN @ + 1 ELSE @,
        !.status = IF run.i + BATCH_SIZE < Len(run.properties)
                     THEN "delay" ELSE "completed"]

\* The microtasks of one invocation: every geocodeProperty whose await is over
\* continues; Promise.all rejects with the first rejection and resolves when
\* every promise of the batch has resolved.
DrainRun(run, cache, hist) ==
  LET settled ==
        [run EXCEPT !.slots = [k \in DOMAIN @ |-> GeocodePropertySettle(@[k], cache, hist)]]
  IN IF settled.status # "awaitBatch" THEN settled
     ELSE IF \E k \in DOMAIN settled.slots : settled.slots[k].st = "rejected"
       THEN [settled EXCEPT !.status = "rejected"]
     ELSE IF \A k \in DOMAIN settled.slots : settled.slots[k].st = "settled"
       THEN AfterBatch(settled)
     ELSE settled

\* The provenance counts of the summary: geocodedProperties.filter(p =>
\* p.geocode_source === tag).length
FromSource(run, tag) ==
  Cardinality({j \in DOMAIN run.geocodedProperties :
                 run.geocodedProperties[j].geocode_source = tag})

\* geocodeProperties from its call to its first await; an empty list skips the
\* loop and returns at once.
GeocodeProperties(properties, cache, key, hist) ==
  IF Len(properties) = 0 THEN Run("completed", properties)
  ELSE StartBatch(Run("awaitBatch", properties), 0, cache, key, hist)

InFlight(run) == {k \in DOMAIN run.slots : run.slots[k].st = "fetching"}

MicrotasksPending(run) ==
  \/ \E k \in DOMAIN run.slots : run.slots[k].st \in {"returned", "threw"}
  \/ /\ run.status = "awaitBatch"
     /\ \A k \in DOMAIN run.slots : run.slots[k].st \in {"settled", "rejected"}

AnyMicrotasksPending == \E r \in RunId : MicrotasksPending(runs[r])

\* ------------------------------------------------------------ bookkeeping
\* history[a]: "api" when a's cache entry was put there by a successful
\* external call and nothing has touched it since, "failed" when the last
\* external call for a failed while a was not cached and a has not been
\* inserted since, "cleared" when a was in the cache that clearGeocodeCache
\* emptied and has not been inserted since, "preloaded" when the last
\* operation on a was a preloadCache call with an entry for a, else "none".
HistoryAfterSettle(hist, address, cacheBefore, res) ==
  IF res.success /\ cacheBefore.kind = "object" THEN [hist EXCEPT ![address] = "api"]
  ELSE IF cacheBefore.kind = "object" /\ ~HasEntry(cacheBefore, address)
    THEN [hist EXCEPT ![address] = "failed"]
  ELSE hist

NoHistory == [a \in Addr |-> "none"]

\* ----------------------------------------------------------------- inputs
\* A full batch of backend-located properties.
Pad == [j \in 1..BATCH_SIZE |-> PropPad]

\* Lists user code passes to geocodeProperties: the empty list, single
\* properties of each kind (one with a NaN latitude), two properties with different and with equal
\* addresses, the three sources mixed, exactly one full batch, and a full batch
\* with one more property behind it.
InputLists ==
  {<< >>, <<PropBackend>>, <<PropNoCoords1>>, <<PropZeroLat>>, <<PropNaN>>,
   <<PropNoCoords1, PropNoCoords2>>, <<PropNoCoords1, PropNoCoords1>>,
   <<PropBackend, PropNoCoords2, PropNoCoords1>>,
   Pad, Pad \o <<PropNoCoords1>>}

InitialStorage ==
  {StorageMissing, StorageCorrupt, StorageNullText, StorageCache(EmptyEntries),
   StorageCache([a \in {"a2"} |-> GeocodeResult("40.0", "-75.1", "F1", TRUE)])}

PreloadGood == [a \in {"a1"} |-> GeocodeResult("39.0", "-75.0", "P1", TRUE)]

PreloadFailed == [a \in {"a2"} |-> GeocodeResult("0", "0", "a2", FALSE)]

PreloadEntries == {PreloadGood, PreloadFailed}

\* Lists of the batch specification: up to MaxBatchProps properties of two
\* alternating kinds, the first without backend coordinates.
BatchInputLists ==
  {[j \in 1..n |-> IF j % 2 = 1 THEN x ELSE y] :
     n \in 0..MaxBatchProps, x \in {PropNoCoords1, PropNoCoords2},
     y \in {PropNoCoords1, PropNoCoords2, PropBackend}}

\* The provider of the batch specification answers by address.
BatchResponse(address) == IF address = "a1" THEN RespLocated ELSE RespZeroResults

\* ------------------------------------------------------------------- Init
\* Module load: the cache starts as {} and loadCacheFromStorage runs once.
IdleCall == AddressCall("idle", "none", FALSE, FALSE, NoResult)

Loaded(store) == LoadCacheFromStorage(store, ObjectCache(EmptyEntries))

Init ==
  /\ apiKey \in BOOLEAN
  /\ localStorage \in InitialStorage
  /\ geocodeCache = Loaded(localStorage)
  /\ runs = [r \in RunId |-> IdleRun]
  /\ direct = IdleCall
  /\ history = NoHistory
  /\ ops = MaxOps

InitBatch ==
  /\ apiKey \in BOOLEAN
  /\ localStorage = StorageMissing
  /\ geocodeCache = Loaded(localStorage)
  /\ runs = [r \in RunId |-> IdleRun]
  /\ direct = IdleCall
  /\ history = NoHistory
  /\ ops = MaxBatchOps

\* ------------------------------------------------- calls made by user code
Invoke(r, properties) ==
  /\ ops > 0
  /\ runs[r].status \in {"idle", "completed", "rejected"}
  /\ InFlight(runs[r]) = {}
  /\ runs' = [runs EXCEPT ![r] = GeocodeProperties(properties, geocodeCache, apiKey, history)]
  /\ ops' = ops - 1
  /\ UNCHANGED <<apiKey, geocodeCache, localStorage, direct, history>>

StartRun(r) == \E properties \in InputLists : Invoke(r, properties)

StartBatchRun == \E properties \in BatchInputLists : Invoke(1, properties)

CallGeocodeAddress(address) ==
  /\ ops > 0
  /\ direct.st # "fetching"
  /\ direct' = [GeocodeAddressStart(address, geocodeCache, apiKey)
                  EXCEPT !.knownAtStart = history[address]]
  /\ ops' = ops - 1
  /\ UNCHANGED <<apiKey, geocodeCache, localStorage, runs, history>>

\* preloadCache: Object.assign throws on a null cache, before the save.
PreloadCache(entries, writeOk) ==
  /\ ops > 0
  /\ ops' = ops - 1
  /\ IF geocodeCache.kind = "null"
       THEN UNCHANGED <<geocodeCache, localStorage>>
       ELSE LET merged ==
                  ObjectCache([a \in DOMAIN geocodeCache.entries \cup DOMAIN entries |->
                                 IF a \in DOMAIN entries THEN entries[a]
                                 ELSE geocodeCache.entries[a]])
            IN /\ geocodeCache' = merged
               /\ localStorage' = SaveCacheToStorage(merged, localStorage, writeOk)
  /\ history' = [a \in Addr |-> IF a \in DOMAIN entries THEN "preloaded" ELSE history[a]]
  /\ UNCHANGED <<apiKey, runs, direct>>

\* getGeocodeStats on a cache object.
GetGeocodeStats(cache) ==
  [cacheSize |-> Cardinality(DOMAIN cache.entries), cacheKeys |-> DOMAIN cache.entries]

\* A clearGeocodeCache that removes the stored item and keeps the cache.
ClearGeocodeCacheKeepingEntries(removeOk) ==
  /\ ops > 0
  /\ ops' = ops - 1
  /\ geocodeCache' = geocodeCache
  /\ localStorage' = IF removeOk THEN StorageMissing ELSE localStorage
  /\ history' = [a \in Addr |->
                   IF a \in DOMAIN geocodeCache.entries THEN "cleared"
                   ELSE IF history[a] = "api" THEN "none" ELSE history[a]]
  /\ UNCHANGED <<apiKey, runs, direct>>

\* clearGeocodeCache: removeItem may throw; the error is caught.
ClearGeocodeCache(removeOk) ==
  /\ ops > 0
  /\ ops' = ops - 1
  /\ geocodeCache' = ObjectCache(EmptyEntries)
  /\ localStorage' = IF removeOk THEN StorageMissing ELSE localStorage
  /\ history' = [a \in Addr |->
                   IF a \in DOMAIN geocodeCache.entries THEN "cleared"
                   ELSE IF history[a] = "api" THEN "none" ELSE history[a]]
  /\ UNCHANGED <<apiKey, runs, direct>>

\* The page is reloaded: every pending invocation is gone and the module
\* loads again from the stored item.
Reload ==
  /\ ops > 0
  /\ ops' = ops - 1
  /\ geocodeCache' = Loaded(localStorage)
  /\ runs' = [r \in RunId |-> IdleRun]
  /\ direct' = IdleCall
  /\ history' = NoHistory
  /\ UNCHANGED <<apiKey, localStorage>>

\* ------------------------------------------------------------- event loop
\* The microtask checkpoint after user code has run.
Drain ==
  /\ AnyMicrotasksPending
  /\ runs' = [r \in RunId |-> DrainRun(runs[r], geocodeCache, history)]
  /\ UNCHANGED <<apiKey, geocodeCache, localStorage, direct, history, ops>>

\* The external call of slot k of run r comes back with resp; the rest of
\* geocodeAddress runs, then the microtasks it queues.
SettleFetch(r, k, resp, writeOk) ==
  LET slot == runs[r].slots[k]
      s == GeocodeAddressSettle(slot.address, resp, geocodeCache, localStorage, writeOk)
      returned == [slot EXCEPT !.st = "returned", !.res = s.res,
                                !.write = s.write,
                                !.respClass = ResponseClass(resp)]
  IN /\ ~AnyMicrotasksPending
     /\ slot.st = "fetching"
     /\ geocodeCache' = s.cache
     /\ localStorage' = s.store
     /\ history' = HistoryAfterSettle(history, slot.address, geocodeCache, s.res)
     /\ runs' = [runs EXCEPT ![r] =
                   DrainRun([runs[r] EXCEPT !.slots[k] = returned], s.cache, history')]
     /\ UNCHANGED <<apiKey, direct, ops>>

FetchSettles(r) ==
  \E k \in DOMAIN runs[r].slots : \E resp \in Responses : \E writeOk \in BOOLEAN :
    SettleFetch(r, k, resp, writeOk)

BatchFetchSettles ==
  \E k \in DOMAIN runs[1].slots :
    SettleFetch(1, k, BatchResponse(runs[1].slots[k].address), TRUE)

SettleDirect(resp, writeOk) ==
  LET s == GeocodeAddressSettle(direct.address, resp, geocodeCache, localStorage, writeOk)
  IN /\ ~AnyMicrotasksPending
     /\ direct.st = "fetching"
     /\ geocodeCache' = s.cache
     /\ localStorage' = s.store
     /\ direct' = [direct EXCEPT !.st = "returned", !.res = s.res,
                                  !.write = s.write,
                                  !.respClass = ResponseClass(resp)]
     /\ history' = HistoryAfterSettle(history, direct.address, geocodeCache, s.res)
     /\ UNCHANGED <<apiKey, runs, ops>>

DirectFetchSettles == \E resp \in Responses : \E writeOk \in BOOLEAN : SettleDirect(resp, writeOk)

\* The timer of the inter-batch delay fires: the loop enters its next
\* iteration.
TimerElapsed(r) ==
  /\ ~AnyMicrotasksPending
  /\ runs[r].status = "delay"
  /\ runs' = [runs EXCEPT ![r] =
                DrainRun(StartBatch(runs[r], runs[r].i + BATCH_SIZE,
                                    geocodeCache, apiKey, history),
                         geocodeCache, history)]
  /\ UNCHANGED <<apiKey, geocodeCache, localStorage, direct, history, ops>>

Next ==
  \/ StartRun(1)
  \/ \E a \in Addr : CallGeocodeAddress(a)
  \/ \E e \in PreloadEntries : \E writeOk \in BOOLEAN : PreloadCache(e, writeOk)
  \/ \E removeOk \in BOOLEAN : ClearGeocodeCache(removeOk)
  \/ Reload
  \/ Drain
  \/ FetchSettles(1)
  \/ DirectFetchSettles
  \/ TimerElapsed(1)

Spec == Init /\ [][Next]_vars

NextBatch ==
  \/ StartBatchRun
  \/ Drain
  \/ BatchFetchSettles
  \/ TimerElapsed(1)

SpecBatch == InitBatch /\ [][NextBatch]_vars

\* ------------------------------------------------- calls that never answer
\* fetch (line 76) is given neither a timeout nor an abort signal: a call the
\* provider never answers leaves its promise pending for ever.
StallCall(r, k) ==
  /\ runs[r].slots[k].st = "fetching"
  /\ runs' = [runs EXCEPT ![r].slots[k].st = "stalled"]
  /\ UNCHANGED <<apiKey, geocodeCache, localStorage, direct, history, ops>>

CallStalls(r) == \E k \in DOMAIN runs[r].slots : StallCall(r, k)

InitStall ==
  /\ apiKey = TRUE
  /\ localStorage \in {StorageMissing, StorageCache(EmptyEntries)}
  /\ geocodeCache = Loaded(localStorage)
  /\ runs = [r \in RunId |-> IdleRun]
  /\ direct = IdleCall
  /\ history = NoHistory
  /\ ops = MaxOps

NextStall ==
  \/ StartRun(1)
  \/ Drain
  \/ FetchSettles(1)
  \/ CallStalls(1)
  \/ TimerElapsed(1)

\* The event loop runs pending microtasks and fired timers, and a call that
\* has not stalled is answered.
SpecStall ==
  /\ InitStall
  /\ [][NextStall]_vars
  /\ WF_vars(Drain)
  /\ WF_vars(FetchSettles(1))
  /\ WF_vars(TimerElapsed(1))

\* ------------------------------------------ the pipeline with every call answered
\* The pipeline on its own, with or without an API key: every external call is
\* answered, every timer fires, and the event loop runs what is pending.
InitProgress ==
  /\ apiKey \in BOOLEAN
  /\ localStorage \in {StorageMissing, StorageCache(EmptyEntries)}
  /\ geocodeCache = Loaded(localStorage)
  /\ runs = [r \in RunId |-> IdleRun]
  /\ direct = IdleCall
  /\ history = NoHistory
  /\ ops = MaxOps

NextProgress ==
  \/ StartRun(1)
  \/ Drain
  \/ FetchSettles(1)
  \/ TimerElapsed(1)

SpecProgress ==
  /\ InitProgress
  /\ [][NextProgress]_vars
  /\ WF_vars(Drain)
  /\ WF_vars(FetchSettles(1))
  /\ WF_vars(TimerElapsed(1))

\* --------------------------------------------- invocations that overlap
\* geocodeProperties is an exported async function: a caller may invoke it
\* again while an earlier invocation is still awaiting its batch.  The first
\* invocation is given one full batch, the second a short list.
FullBatchLists == {l \in BatchInputLists : Len(l) = BATCH_SIZE}

ShortLists == {l \in BatchInputLists : Len(l) \in 1..MaxOverlapProps}

StartFirstRun == \E properties \in FullBatchLists : Invoke(1, properties)

StartSecondRun == \E properties \in ShortLists : Invoke(2, properties)

OverlapFetchSettles(r) ==
  \E k \in DOMAIN runs[r].slots :
    SettleFetch(r, k, BatchResponse(runs[r].slots[k].address), TRUE)

InitOverlap ==
  /\ apiKey = TRUE
  /\ localStorage = StorageMissing
  /\ geocodeCache = Loaded(localStorage)
  /\ runs = [r \in RunId |-> IdleRun]
  /\ direct = IdleCall
  /\ history = NoHistory
  /\ ops = MaxOps

NextOverlap ==
  \/ StartFirstRun
  \/ StartSecondRun
  \/ Drain
  \/ OverlapFetchSettles(1)
  \/ OverlapFetchSettles(2)

SpecOverlap == InitOverlap /\ [][NextOverlap]_vars

\* ================================================================= claims
SlotIds == UNION {{<<r, k>> : k \in DOMAIN runs[r].slots} : r \in RunId}

SlotOf(rk) == runs[rk[1]].slots[rk[2]]

Range(seq) == {seq[j] : j \in DOMAIN seq}

Count(seq, Test(_)) == Cardinality({j \in DOMAIN seq : Test(seq[j])})

\* C1: once an address has been resolved through the provider and stored, a
\* resolution of the same address started afterwards (nothing having touched
\* the entry in between) issues no external call, is answered with the cached
\* result, and geocodeProperty tags it 'cache'.
C1_SecondResolutionFromCache ==
  /\ \A rk \in SlotIds :
       LET s == SlotOf(rk) IN
       s.knownAtStart = "api" =>
         /\ ~s.called
         /\ s.cachedAtStart
         /\ s.st \in {"returned", "settled"}
         /\ (s.st = "settled" /\ s.knownAtEnd = "api") =>
              /\ s.out.kind = "property"
              /\ s.out.value.geocode_source = "cache"
              /\ s.out.value.latitude = s.res.latitude
              /\ s.out.value.longitude = s.res.longitude
  /\ direct.knownAtStart = "api" =>
       ~direct.called /\ direct.cachedAtStart /\ direct.st = "returned"

C1_Witness ==
  \E rk \in SlotIds :
    /\ SlotOf(rk).knownAtStart = "api"
    /\ SlotOf(rk).st = "settled"
    /\ ~SlotOf(rk).called
    /\ SlotOf(rk).out.value.geocode_source = "cache"

\* C2: a property whose latitude and longitude are both non-null and non-zero
\* is settled by geocodeProperty without a cache read and without an external
\* call, with its own coordinates and the tag 'backend'; the step that starts
\* its batch leaves the cache and the stored item as they were.
ValidBackendCoordinates(property) ==
  property.latitude \notin {Null, "0"} /\ property.longitude \notin {Null, "0"}

C2_BackendSlots ==
  \A rk \in SlotIds :
    LET s == SlotOf(rk) IN
    ValidBackendCoordinates(s.property) =>
      /\ ~s.cacheRead
      /\ ~s.called
      /\ s.st = "settled"
      /\ s.out = OutProperty(GeocodedProperty(s.property, s.property.latitude,
                                              s.property.longitude, "backend"))

C2_BatchStartKeepsCache ==
  \A r \in RunId :
    ( /\ runs'[r] # runs[r]
      /\ runs'[r].batches >= 1
      /\ (runs'[r].batches = runs[r].batches + 1 \/ ops' < ops)
      /\ \E k \in DOMAIN runs'[r].slots :
           ValidBackendCoordinates(runs'[r].slots[k].property) )
    => (geocodeCache' = geocodeCache /\ localStorage' = localStorage)

C2_BackendPrecedence == [](C2_BackendSlots) /\ [][C2_BatchStartKeepsCache]_vars

\* A backend-located property whose address is in the cache at that moment.
C2_Witness ==
  \E rk \in SlotIds :
    /\ ValidBackendCoordinates(SlotOf(rk).property)
    /\ SlotOf(rk).out.value.geocode_source = "backend"
    /\ geocodeCache.kind = "object"
    /\ HasEntry(geocodeCache, FormatAddressForGeocoding(SlotOf(rk).property))

\* C3: a resolution that found its address missing from the cache and whose
\* external call came back with a located result is tagged 'api', and the tag 'cache' is given only
\* to a resolution that found the address cached and made no external call.
C3_FreshLookupTaggedApi ==
  \A rk \in SlotIds :
    LET s == SlotOf(rk) IN
    (s.st = "settled" /\ s.out.kind = "property" /\ s.cacheRead) =>
      /\ (s.called /\ ~s.cachedAtStart /\ s.respClass = "positive") =>
           s.out.value.geocode_source = "api"
      /\ (s.out.value.geocode_source = "cache" /\ s.respClass # "malformed") =>
           (s.cachedAtStart /\ ~s.called)

\* C4: an external call for address A that fails changes neither the cache
\* nor the stored item; while A stays absent after such a failure, every later
\* resolution of A issues a new external call.
C4_FailedAbsent ==
  /\ \A a \in Addr :
       history[a] = "failed" => (geocodeCache.kind = "object" /\ ~HasEntry(geocodeCache, a))
  /\ \A rk \in SlotIds :
       SlotOf(rk).knownAtStart = "failed" =>
         (SlotOf(rk).called /\ ~SlotOf(rk).cachedAtStart)
  /\ direct.knownAtStart = "failed" => (direct.called /\ ~direct.cachedAtStart)

C4_FailureKeepsCache ==
  /\ \A r \in RunId : \A k \in DOMAIN runs[r].slots :
       ( /\ runs[r].slots[k].st = "fetching"
         /\ k \in DOMAIN runs'[r].slots
         /\ runs'[r].slots[k].st = "settled"
         /\ ~runs'[r].slots[k].res.success )
       => (geocodeCache' = geocodeCache /\ localStorage' = localStorage)
  /\ (direct.st = "fetching" /\ direct'.st = "returned" /\ ~direct'.res.success)
       => (geocodeCache' = geocodeCache /\ localStorage' = localStorage)

C4_FailureNonPoisoning == [](C4_FailedAbsent) /\ [][C4_FailureKeepsCache]_vars

C4_Witness ==
  \E rk \in SlotIds :
    /\ SlotOf(rk).knownAtStart = "failed"
    /\ SlotOf(rk).called
    /\ SlotOf(rk).st = "settled"

\* C5: without an API key (and with a usable cache), no invocation of
\* geocodeProperties ends rejected and no geocodeProperty promise rejects: a
\* property that is neither backend-located nor cached is reported as failed.
C5_MissingKeyNotFatal ==
  (~apiKey /\ localStorage.kind # "null") =>
    /\ \A r \in RunId : runs[r].status # "rejected"
    /\ \A rk \in SlotIds : SlotOf(rk).st # "rejected"

\* C6: when an invocation of geocodeProperties has returned, every input
\* property is counted exactly once, in the output or in the failed list: the
\* two lengths add up to the input length, name by name.
C6_CompleteAccounting ==
  \A r \in RunId :
    runs[r].status = "completed" =>
      /\ Len(runs[r].geocodedProperties) + Len(runs[r].failedProperties)
           = Len(runs[r].properties)
      /\ \A p \in Range(runs[r].properties) :
           Count(runs[r].properties, LAMBDA q : q.id = p.id)
             = Count(runs[r].geocodedProperties, LAMBDA g : g.id = p.id)
               + Count(runs[r].failedProperties,
                       LAMBDA n : n = p.shopping_center_name)

C6_Witness ==
  \E r \in RunId :
    /\ runs[r].status = "completed"
    /\ Len(runs[r].geocodedProperties) > 0
    /\ Len(runs[r].failedProperties) > 0

\* C7: in one invocation of geocodeProperties on n properties no batch holds
\* more than 10 properties, never more than 10 external calls of the
\* invocation are in flight, the batches entered so far are those needed for
\* the properties reached, and an invocation that has returned has entered
\* exactly ceil(n / 10) batches.
CeilDiv(n, d) == (n + d - 1) \div d

C7_BatchRateCompliance ==
  \A r \in RunId :
    /\ Len(runs[r].slots) <= 10
    /\ Cardinality(InFlight(runs[r])) <= 10
    /\ runs[r].batches <= CeilDiv(Len(runs[r].properties), 10)
    /\ runs[r].status \in {"awaitBatch", "delay"} => runs[r].i = 10 * (runs[r].batches - 1)
    /\ runs[r].status = "completed" =>
         runs[r].batches = CeilDiv(Len(runs[r].properties), 10)

\* The third batch of a list of 25 properties, all five calls in flight.
C7_Witness ==
  \E r \in RunId :
    /\ Len(runs[r].properties) = 25
    /\ runs[r].batches = 3
    /\ Cardinality(InFlight(runs[r])) = 5

\* C8: with an API key configured (and a usable cache) no geocodeAddress
\* promise rejects, and every call whose response is a negative provider
\* answer, a transport failure or a malformed response resolves to
\* {latitude: 0, longitude: 0, formatted_address: address, success: false}.
C8_FlattenedErrors ==
  (apiKey /\ localStorage.kind # "null") =>
    /\ \A rk \in SlotIds :
         LET s == SlotOf(rk) IN
         /\ s.st \notin {"threw", "rejected"}
         /\ s.respClass \in {"negative", "transport", "malformed"} =>
              s.res = ErrorResult(s.address)
    /\ direct.st # "threw"
    /\ direct.respClass \in {"negative", "transport", "malformed"} =>
         direct.res = ErrorResult(direct.address)

\* C9: a property whose external call failed is settled with null, the output
\* never holds the (0, 0) of a failed lookup, and once its batch has been
\* collected the property's name is in the failed list of its invocation.
FailedExternally(s) == s.called /\ s.st = "settled" /\ ~s.res.success

C9_FailedDroppedAndReported ==
  /\ \A rk \in SlotIds : FailedExternally(SlotOf(rk)) => SlotOf(rk).out = OutNull
  /\ \A r \in RunId :
       /\ \A j \in DOMAIN runs[r].geocodedProperties :
            ~( /\ runs[r].geocodedProperties[j].latitude = "0"
               /\ runs[r].geocodedProperties[j].longitude = "0" )
       /\ runs[r].status \in {"delay", "completed"} =>
            \A k \in DOMAIN runs[r].slots :
              FailedExternally(runs[r].slots[k]) =>
                LET p == runs[r].slots[k].property
                    failedInBatch ==
                      Count(runs[r].slots, LAMBDA s : FailedExternally(s) /\ s.property = p)
                IN /\ Count(runs[r].failedProperties,
                            LAMBDA name : name = p.shopping_center_name) >= failedInBatch
                   /\ Count(runs[r].geocodedProperties, LAMBDA g : g.id = p.id)
                        <= Count(runs[r].properties, LAMBDA q : q.id = p.id) - failedInBatch

C9_Witness ==
  \E r \in RunId : \E k \in DOMAIN runs[r].slots :
    /\ runs[r].status = "completed"
    /\ FailedExternally(runs[r].slots[k])
    /\ runs[r].slots[k].property.shopping_center_name \in Range(runs[r].failedProperties)

\* C10: every entry of the cache and of the stored item has success = true.
C10_OnlySuccessesCached ==
  /\ \A a \in DOMAIN geocodeCache.entries : geocodeCache.entries[a].success
  /\ \A a \in DOMAIN localStorage.entries : localStorage.entries[a].success

\* C11: in the step in which geocodeAddress inserts a result and setItem does
\* not fail, the cache holds the new entry and the stored item is exactly the
\* serialization of the whole cache as that step leaves it.
C11_SavedStep ==
  /\ \A r \in RunId : \A k \in DOMAIN runs[r].slots :
       ( /\ runs[r].slots[k].st = "fetching"
         /\ k \in DOMAIN runs'[r].slots
         /\ runs'[r].slots[k].write = "ok" )
       => /\ geocodeCache'.kind = "object"
          /\ HasEntry(geocodeCache', runs[r].slots[k].address)
          /\ localStorage' = JsonStringify(geocodeCache')
  /\ (direct.st = "fetching" /\ direct'.write = "ok")
       => /\ geocodeCache'.kind = "object"
          /\ HasEntry(geocodeCache', direct.address)
          /\ localStorage' = JsonStringify(geocodeCache')

C11_WriteThrough == [][C11_SavedStep]_vars

\* An insertion next to an entry that was there before: both are stored.
C11_Witness ==
  \E rk \in SlotIds :
    /\ SlotOf(rk).write = "ok"
    /\ Cardinality(DOMAIN geocodeCache.entries) = 2
    /\ localStorage = JsonStringify(geocodeCache)

\* C12: when setItem fails during a successful resolution, geocodeAddress
\* still resolves with the successful result (its promise does not reject and
\* geocodeProperty builds a property from it), the cache holds the new entry,
\* and the stored item is left as it was.
C12_FailedWriteCalls ==
  /\ \A rk \in SlotIds :
       LET s == SlotOf(rk) IN
       s.write = "failed" =>
         /\ s.res.success
         /\ s.st \in {"returned", "settled"}
         /\ s.st = "settled" => s.out.kind = "property"
  /\ direct.write = "failed" => (direct.res.success /\ direct.st = "returned")

C12_FailedWriteStep ==
  /\ \A r \in RunId : \A k \in DOMAIN runs[r].slots :
       ( /\ runs[r].slots[k].st = "fetching"
         /\ k \in DOMAIN runs'[r].slots
         /\ runs'[r].slots[k].write = "failed" )
       => /\ geocodeCache'.kind = "object"
          /\ HasEntry(geocodeCache', runs[r].slots[k].address)
          /\ geocodeCache'.entries[runs[r].slots[k].address] = runs'[r].slots[k].res
          /\ localStorage' = localStorage
  /\ (direct.st = "fetching" /\ direct'.write = "failed")
       => /\ geocodeCache'.kind = "object"
          /\ HasEntry(geocodeCache', direct.address)
          /\ geocodeCache'.entries[direct.address] = direct'.res
          /\ localStorage' = localStorage

C12_PersistFailureAbsorbed == [](C12_FailedWriteCalls) /\ [][C12_FailedWriteStep]_vars

C12_Witness ==
  \E rk \in SlotIds :
    /\ SlotOf(rk).write = "failed"
    /\ SlotOf(rk).st = "settled"
    /\ SlotOf(rk).out.kind = "property"
    /\ HasEntry(geocodeCache, SlotOf(rk).address)
    /\ SlotOf(rk).address \notin DOMAIN localStorage.entries

\* C13: whatever the stored item held when the module loaded, the cache is a
\* mapping on which lookups and insertions work: with an API key configured no
\* geocodeAddress call throws, no geocodeProperty promise rejects, and a call
\* whose answer is a located result returns it as a success.
C13_LoadRecoverable ==
  apiKey =>
    /\ direct.st # "threw"
    /\ direct.respClass = "positive" => direct.res.success
    /\ \A rk \in SlotIds :
         /\ SlotOf(rk).st \notin {"threw", "rejected"}
         /\ SlotOf(rk).respClass = "positive" => SlotOf(rk).res.success

\* C14: in the step in which geocodeAddress inserts a result and the save
\* succeeds, a module load from the stored item as that step leaves it gives a
\* cache whose entry for the address is equal to the result inserted, and which
\* holds every address that was stored before the step and is still cached.


C14_RoundTripOf(address, res, cacheBefore, storeBefore, storeAfter) ==
  LET restarted == Loaded(storeAfter) IN
  /\ restarted.kind = "object"
  /\ HasEntry(restarted, address)
  /\ restarted.entries[address] = res
  /\ \A a \in DOMAIN storeBefore.entries \cap DOMAIN cacheBefore.entries :
       HasEntry(restarted, a)

C14_SavedStep ==
  /\ \A r \in RunId : \A k \in DOMAIN runs[r].slots :
       ( /\ runs[r].slots[k].st = "fetching"
         /\ k \in DOMAIN runs'[r].slots
         /\ runs'[r].slots[k].write = "ok" )
       => C14_RoundTripOf(runs[r].slots[k].address, runs'[r].slots[k].res,
                          geocodeCache, localStorage, localStorage')
  /\ (direct.st = "fetching" /\ direct'.write = "ok")
       => C14_RoundTripOf(direct.address, direct'.res,
                          geocodeCache, localStorage, localStorage')

C15_BoundedExternalCall ==
  (runs[1].status \in {"awaitBatch", "delay"}) ~> (runs[1].status = "completed")

\* C16: a property whose latitude or longitude is present but is no usable
\* number (NaN, undefined) goes through the cache lookup of geocodeAddress and
\* is never returned tagged 'backend'.
UnusableCoordinate(v) == v \in {"NaN", Undefined}

C16_MalformedFallThrough ==
  \A rk \in SlotIds :
    LET s == SlotOf(rk) IN
    (UnusableCoordinate(s.property.latitude) \/ UnusableCoordinate(s.property.longitude))
      => /\ s.cacheRead
         /\ ~(s.out.kind = "property" /\ s.out.value.geocode_source = "backend")

\* C17: with nothing but the completions of the calls interleaving, once a
\* batch has settled the cache holds an entry for every address whose external
\* call of that batch succeeded (the result of the call when no other call of
\* the batch was for the same address), and when none of their saves failed
\* the stored item holds all those addresses too.
Succeeded(run) ==
  {k \in DOMAIN run.slots : run.slots[k].called /\ run.slots[k].res.success}

C17_ConcurrentInsertionsKept ==
  \A r \in RunId :
    runs[r].status \in {"delay", "completed"} =>
      LET slots == runs[r].slots
          won == Succeeded(runs[r])
      IN /\ \A k \in won :
              /\ geocodeCache.kind = "object"
              /\ HasEntry(geocodeCache, slots[k].address)
              /\ (\A j \in won : j # k => slots[j].address # slots[k].address)
                   => geocodeCache.entries[slots[k].address] = slots[k].res
         /\ (\A k \in won : slots[k].write = "ok")
              => \A k \in won : slots[k].address \in DOMAIN localStorage.entries

\* Two calls of one batch for different addresses, both successful and saved.
C17_Witness ==
  \E r \in RunId : \E j, k \in Succeeded(runs[r]) :
    /\ runs[r].status = "completed"
    /\ runs[r].slots[j].address # runs[r].slots[k].address
    /\ runs[r].slots[j].write = "ok"
    /\ runs[r].slots[k].write = "ok"
    /\ {runs[r].slots[j].address, runs[r].slots[k].address}
         \subseteq DOMAIN localStorage.entries

\* C18: the completion of a geocodeAddress call (called directly or inside a
\* batch) whose answer is a located result leaves the coordinates of every
\* successful entry that was already in the cache as they were.
C18_LocatedAnswerArrives ==
  \/ direct.st = "fetching" /\ direct'.respClass = "positive"
  \/ \E r \in RunId : \E k \in DOMAIN runs[r].slots :
       /\ runs[r].slots[k].st = "fetching"
       /\ k \in DOMAIN runs'[r].slots
       /\ runs'[r].slots[k].respClass = "positive"

C18_CompletionKeepsEntries ==
  C18_LocatedAnswerArrives =>
    \A a \in DOMAIN geocodeCache.entries \cap DOMAIN geocodeCache'.entries :
      geocodeCache.entries[a].success =>
        /\ geocodeCache'.entries[a].latitude = geocodeCache.entries[a].latitude
        /\ geocodeCache'.entries[a].longitude = geocodeCache.entries[a].longitude

C18_EntriesImmutable == [][C18_CompletionKeepsEntries]_vars

\* C19: the step in which a call of geocodeAddress made by user code returns,
\* whatever answer of the provider's contract (located, negative, transport
\* failure) it got, leaves the cache and the stored item as they were.
C19_CallReturnKeepsCache ==
  ( /\ direct.st = "fetching"
    /\ direct'.st = "returned"
    /\ direct'.respClass \in {"positive", "negative", "transport"} )
    => (geocodeCache' = geocodeCache /\ localStorage' = localStorage)

C19_ClientDoesNotMutateCache == [][C19_CallReturnKeepsCache]_vars

\* C20: inside one invocation of geocodeProperties every property of the
\* current batch has exactly one geocodeProperty invocation, an invocation
\* whose external call has been answered (successfully or not) has no call in
\* flight, and until the next batch or the next invocation starts no
\* invocation issues a call it had not issued when the batch started; a
\* property that failed is called for again only by a later invocation.
C20_OneInvocationPerProperty ==
  \A r \in RunId :
    runs[r].status \in {"awaitBatch", "delay", "completed"} /\ runs[r].batches > 0 =>
      LET batch == BatchOf(runs[r].properties, runs[r].i) IN
      /\ Len(runs[r].slots) = Len(batch)
      /\ \A k \in DOMAIN runs[r].slots :
           /\ runs[r].slots[k].property = batch[k]
           /\ runs[r].slots[k].st = "fetching" =>
                (runs[r].slots[k].called /\ runs[r].slots[k].respClass = "none")

C20_NoNewCallInBatch ==
  \A r \in RunId : \A k \in DOMAIN runs[r].slots :
    ( /\ ops' = ops
      /\ runs'[r].batches = runs[r].batches
      /\ k \in DOMAIN runs'[r].slots )
    => /\ runs'[r].slots[k].called = runs[r].slots[k].called
       /\ runs'[r].slots[k].st = "fetching" => runs[r].slots[k].st = "fetching"
       /\ runs[r].slots[k].respClass # "none" =>
            runs'[r].slots[k].respClass = runs[r].slots[k].respClass

C20_NoAutomaticRetry == [](C20_OneInvocationPerProperty) /\ [][C20_NoNewCallInBatch]_vars

\* A property whose call failed in an earlier invocation, called for again by
\* a later invocation, where it failed again and was not called for a third
\* time.
C20_Witness ==
  \E r \in RunId : \E k \in DOMAIN runs[r].slots :
    /\ runs[r].status = "completed"
    /\ runs[r].slots[k].knownAtStart = "failed"
    /\ FailedExternally(runs[r].slots[k])
    /\ runs[r].slots[k].out = OutNull

\* C21: the output of an invocation of geocodeProperties is always a
\* subsequence of the input reached so far; once a batch has been collected the
\* output ends with the successful properties of that batch in input order;
\* when the invocation has returned and the input holds no property twice, the
\* output is the input without the properties named in the failed list; and
\* inside one invocation the output only grows at its end.
IdsOf(seq) == [j \in DOMAIN seq |-> seq[j].id]

RECURSIVE IsSubsequence(_, _)
IsSubsequence(a, b) ==
  IF a = << >> THEN TRUE
  ELSE IF b = << >> THEN FALSE
  ELSE IF Head(a) = Head(b) THEN IsSubsequence(Tail(a), Tail(b))
  ELSE IsSubsequence(a, Tail(b))

IsPrefix(a, b) == Len(a) <= Len(b) /\ SubSeq(b, 1, Len(a)) = a

C21_OutputInInputOrder ==
  \A r \in RunId :
    LET run == runs[r]
        reached == SubSeq(run.properties, 1,
                          Min(run.i + BATCH_SIZE, Len(run.properties)))
        good == SelectSeq(run.slots, LAMBDA s : s.out.kind = "property")
        n == Len(run.geocodedProperties)
    IN /\ IsSubsequence(IdsOf(run.geocodedProperties), IdsOf(reached))
       /\ (run.status \in {"delay", "completed"} /\ run.batches > 0) =>
            /\ n >= Len(good)
            /\ IdsOf(SubSeq(run.geocodedProperties, n - Len(good) + 1, n))
                 = [k \in 1..Len(good) |-> good[k].property.id]
       /\ ( /\ run.status = "completed"
            /\ Cardinality(Range(run.properties)) = Len(run.properties) ) =>
            IdsOf(run.geocodedProperties)
              = IdsOf(SelectSeq(run.properties,
                        LAMBDA q : q.shopping_center_name
                                     \notin Range(run.failedProperties)))

C21_OutputOnlyGrows ==
  \A r \in RunId :
    (ops' = ops /\ runs'[r].status # "idle") =>
      IsPrefix(runs[r].geocodedProperties, runs'[r].geocodedProperties)

C21_OutputOrder == [](C21_OutputInInputOrder) /\ [][C21_OutputOnlyGrows]_vars

\* Two batches: the property of the second batch comes after the ten of the
\* first.
C21_Witness ==
  \E r \in RunId :
    /\ runs[r].status = "completed"
    /\ runs[r].batches = 2
    /\ Len(runs[r].geocodedProperties) = 11
    /\ runs[r].geocodedProperties[11].id = 2

\* C22: in one invocation of geocodeProperties a delay is set after every
\* batch but the last and after no other: the timers set so far are one fewer
\* than the batches entered (as many while the invocation waits for one), an
\* invocation that has returned has set max(0, N - 1) of them for its N
\* batches, an empty input sets none; and the next batch starts only from the
\* elapsed delay of its predecessor, every geocodeProperty of which has
\* settled.
Max(a, b) == IF a > b THEN a ELSE b

AllSettled(run) == \A k \in DOMAIN run.slots : run.slots[k].st = "settled"

C22_DelaysCounted ==
  \A r \in RunId :
    LET run == runs[r]
        n == Len(run.properties)
    IN /\ run.delays = IF run.status = "delay" THEN run.batches
                       ELSE Max(0, run.batches - 1)
       /\ run.status = "completed" => run.delays = Max(0, CeilDiv(n, BATCH_SIZE) - 1)
       /\ n = 0 => (run.delays = 0 /\ run.status # "delay")
       /\ run.status = "delay" => (run.i + BATCH_SIZE < n /\ AllSettled(run))

C22_BatchStartsAfterDelay ==
  \A r \in RunId :
    (ops' = ops /\ runs'[r].batches = runs[r].batches + 1) =>
      /\ runs[r].status = "delay"
      /\ AllSettled(runs[r])
      /\ runs'[r].i = runs[r].i + BATCH_SIZE

C22_InterBatchGate == [](C22_DelaysCounted) /\ [][C22_BatchStartsAfterDelay]_vars

\* Three batches and the two delays between them.
C22_Witness ==
  \E r \in RunId :
    /\ runs[r].status = "completed"
    /\ runs[r].batches = 3
    /\ runs[r].delays = 2

\* C23: when every external call is answered and every delay elapses, an
\* invocation of geocodeProperties that has entered a batch eventually returns
\* its output, and an invocation that has returned has no external call in
\* flight.
C23_PipelineProgress ==
  /\ [](runs[1].status = "completed" => InFlight(runs[1]) = {})
  /\ (runs[1].status \in {"awaitBatch", "delay"}) ~> (runs[1].status = "completed")

\* C24: with no API key configured, a geocodeAddress call for an address that
\* is in the cache when the call is made returns the cached entry without
\* throwing and without an external call, inside a batch as well as called
\* directly, and a property with valid backend coordinates is settled with
\* its own coordinates and the tag 'backend'.
C24_BatchStarts(r) ==
  \/ ops' = ops - 1 /\ runs'[r] # runs[r] /\ runs'[r].status # "idle"
  \/ ops' = ops /\ runs'[r].batches = runs[r].batches + 1

C24_StartWithoutKey ==
  ~apiKey =>
    /\ ( /\ ops' = ops - 1
         /\ direct' # direct
         /\ direct'.st # "idle"
         /\ geocodeCache.kind = "object"
         /\ HasEntry(geocodeCache, direct'.address) )
       => /\ direct'.st = "returned"
          /\ ~direct'.called
          /\ direct'.res = geocodeCache.entries[direct'.address]
    /\ \A r \in RunId :
         C24_BatchStarts(r) =>
           \A k \in DOMAIN runs'[r].slots :
             LET s == runs'[r].slots[k]
                 address == FormatAddressForGeocoding(s.property)
             IN /\ ValidBackendCoordinates(s.property) =>
                     /\ s.st = "settled"
                     /\ s.out = OutProperty(GeocodedProperty(s.property,
                                   s.property.latitude, s.property.longitude, "backend"))
                /\ ( /\ ~ValidBackendCoordinates(s.property)
                     /\ geocodeCache.kind = "object"
                     /\ HasEntry(geocodeCache, address) )
                   => /\ s.st \in {"returned", "settled"}
                      /\ ~s.called
                      /\ s.res = geocodeCache.entries[address]

C24_NoKeyCachedAndBackend == [][C24_StartWithoutKey]_vars

\* Without a key: a direct call answered from the cache, or a batch with a
\* property answered from the cache next to one with backend coordinates.
C24_Witness ==
  /\ ~apiKey
  /\ direct.st = "returned"
  /\ direct.cachedAtStart
  /\ direct.res.success
  /\ \E rk \in SlotIds :
       /\ SlotOf(rk).st = "settled"
       /\ SlotOf(rk).out.kind = "property"
       /\ SlotOf(rk).out.value.geocode_source \in {"backend", "cache"}

\* C25: clearGeocodeCache leaves an empty cache, for which getGeocodeStats
\* reports size 0 and no keys, whether or not removeItem failed; when the
\* removal did not fail, a module load from the stored item gives an empty
\* cache; an address that was cached when the cache was cleared stays absent
\* until it is inserted again, and a resolution of it started in the meantime
\* is not answered from the cache and, with an API key configured, issues an
\* external call.
C25_ClearedStayAbsent ==
  /\ \A a \in Addr :
       history[a] = "cleared" => (geocodeCache.kind = "object" /\ ~HasEntry(geocodeCache, a))
  /\ \A rk \in SlotIds :
       SlotOf(rk).knownAtStart = "cleared" =>
         /\ ~SlotOf(rk).cachedAtStart
         /\ apiKey => SlotOf(rk).called
  /\ direct.knownAtStart = "cleared" =>
       /\ ~direct.cachedAtStart
       /\ apiKey => direct.called

C25_ClearStep ==
  (\E a \in Addr : history[a] # "cleared" /\ history'[a] = "cleared") =>
    /\ geocodeCache' = ObjectCache(EmptyEntries)
    /\ GetGeocodeStats(geocodeCache') = [cacheSize |-> 0, cacheKeys |-> {}]
    /\ \/ localStorage' = localStorage
       \/ /\ localStorage'.kind = "missing"
          /\ Loaded(localStorage') = ObjectCache(EmptyEntries)

C25_ClearEmptiesCache == [](C25_ClearedStayAbsent) /\ [][C25_ClearStep]_vars

\* A resolution of a cleared address that went to the provider, while the
\* stored item still holds the address because removeItem failed.
C25_Witness ==
  \E rk \in SlotIds :
    /\ SlotOf(rk).knownAtStart = "cleared"
    /\ SlotOf(rk).called
    /\ SlotOf(rk).address \in DOMAIN localStorage.entries

\* C25 as stated: every resolution of an address that was cached when the
\* cache was cleared, started before the address is inserted again, issues an
\* external call.
C25_ClearedAlwaysCalled ==
  /\ \A rk \in SlotIds : SlotOf(rk).knownAtStart = "cleared" => SlotOf(rk).called
  /\ direct.knownAtStart = "cleared" => direct.called

\* C26: every property in the output of geocodeProperties carries one of the
\* tags 'backend', 'cache', 'api', and the three provenance counts of the
\* summary add up to the number of properties in the output.
C26_ProvenancePartition ==
  \A r \in RunId :
    /\ \A j \in DOMAIN runs[r].geocodedProperties :
         runs[r].geocodedProperties[j].geocode_source \in {"backend", "cache", "api"}
    /\ FromSource(runs[r], "backend") + FromSource(runs[r], "cache")
         + FromSource(runs[r], "api") = Len(runs[r].geocodedProperties)

\* An invocation that has returned properties of two provenances.
C26_Witness ==
  \E r \in RunId :
    /\ runs[r].status = "completed"
    /\ FromSource(runs[r], "backend") >= 1
    /\ FromSource(runs[r], "cache") >= 1
    /\ Len(runs[r].geocodedProperties) = 3

\* C27: after preloadCache(entries), and until another operation touches the
\* key, every key of entries maps to the supplied result; a geocodeAddress call
\* started in that time for a key supplied with success = true is answered
\* with that result and issues no external call; and the call leaves the
\* entries of the other keys as they were.
Supplied(a) == IF a \in DOMAIN PreloadGood THEN PreloadGood[a] ELSE PreloadFailed[a]

C27_PreloadedMapped ==
  /\ \A a \in Addr :
       history[a] = "preloaded" =>
         /\ geocodeCache.kind = "object"
         /\ HasEntry(geocodeCache, a)
         /\ geocodeCache.entries[a] = Supplied(a)
  /\ \A rk \in SlotIds :
       LET s == SlotOf(rk) IN
       (s.knownAtStart = "preloaded" /\ Supplied(s.address).success) =>
         (~s.called /\ s.cachedAtStart /\ s.res = Supplied(s.address))
  /\ (direct.knownAtStart = "preloaded" /\ Supplied(direct.address).success) =>
       (~direct.called /\ direct.cachedAtStart /\ direct.res = Supplied(direct.address))

C27_PreloadKeepsOthers ==
  (\E a \in Addr : history[a] # "preloaded" /\ history'[a] = "preloaded") =>
    \A b \in DOMAIN geocodeCache.entries :
      history'[b] # "preloaded" =>
        /\ geocodeCache'.kind = "object"
        /\ HasEntry(geocodeCache', b)
        /\ geocodeCache'.entries[b] = geocodeCache.entries[b]

C27_PreloadMerges == [](C27_PreloadedMapped) /\ [][C27_PreloadKeepsOthers]_vars

\* C28: of the geocodeProperty invocations of one batch that resolve the same
\* address key, at most one issues an external call.
C28_OneCallPerAddress ==
  \A r \in RunId : \A j, k \in DOMAIN runs[r].slots :
    ( /\ j # k
      /\ runs[r].slots[j].address = runs[r].slots[k].address
      /\ runs[r].slots[j].called )
    => ~runs[r].slots[k].called

\* C29: over all invocations of geocodeProperties that overlap in time, the
\* number of external geocoding calls in flight never exceeds 10.
TotalInFlight == Cardinality(InFlight(runs[1])) + Cardinality(InFlight(runs[2]))

C29_GlobalInFlightBound == TotalInFlight <= BATCH_SIZE

\* C30: a geocodeProperty invocation that returns null has issued an external
\* call for the property's address, and one that found the address in the
\* cache returns a geocoded property.
C30_AbsentNeverFromCache ==
  \A r \in RunId : \A k \in DOMAIN runs[r].slots :
    LET slot == runs[r].slots[k] IN
    slot.st = "settled" =>
      /\ slot.out = OutNull => slot.called
      /\ (slot.cacheRead /\ slot.cachedAtStart) => slot.out.kind = "property"

====
